---- MODULE Spec2Model ----
(***************************************************************************)
(* Music queue engine: circular doubly linked playback queue, popularity   *)
(* max-heap, search tries, undo/redo stacks and the manager composing them *)
(* (src/c_core/doubly_linked_list.c, max_heap.c, stack.c, manager.c, and   *)
(* the trie of src/unnamed/part_009).                                      *)
(*                                                                         *)
(* The playback queue is modelled at the level of the C heap: a pool of    *)
(* node addresses, the set of allocated ones, and the three fields of each *)
(* node.  free() leaves the address in the pool; what a later read of a    *)
(* freed node yields is chosen nondeterministically when the node is freed *)
(* (indeterminate contents), malloc may hand a freed address out again,    *)
(* and dereferencing NULL or a wild pointer ends the process.              *)
(***************************************************************************)
EXTENDS Integers, Sequences, FiniteSets, TLC

\* ---------------------------------------------------------------- bounds
MaxCalls == 4          \* public manager calls per behaviour
MaxNodes == 3          \* addresses in the DLLNode pool
MaxCapacity == 2       \* largest heap_capacity passed to manager_create

SongIds == {1, 2}                          \* song_id arguments
Likes == {0, 1}                            \* likes arguments
Plays == {0}                               \* play_count arguments
\* the songs of the external catalog that callers add: id, title, artist
Catalog == {[id |-> 1, title |-> <<"S", "e">>, artist |-> <<"A", "b">>],
            [id |-> 2, title |-> <<"s", "~", "E", "o">>, artist |-> <<"a", "B">>]}
Titles == {s.title : s \in Catalog}        \* search_songs queries
Artists == {s.artist : s \in Catalog}      \* search_artists queries
Limits == {1, 2}                           \* get_recommendations limits

\* inputs of the popularity-index and search specifications
HeapCapacity == 3      \* heap_capacity passed to manager_create in HeapSpec
MaxUpcoming == 2       \* addresses of QueueNodes outside the DLLNode pool
MaxBufferCalls == 5    \* public calls per behaviour of BufferSpec
\* the catalog with two more songs: one whose title folds to the same key
\* as song 1, and song 7, whose title holds the two bytes of a UTF-8 n-tilde
\* (as char values they are negative; the C libraries the build scripts
\* target hand such values back from tolower unchanged)
Library ==
  Catalog \cup
  {[id |-> 3, title |-> <<"S", "E">>, artist |-> <<"C">>],
   [id |-> 7,
    title |-> <<"S", "e", "0xC3", "0xB1", "o", "r", "i", "t", "a">>,
    artist |-> <<"S", "h", "a", "w", "n">>]}
HeapSongs == {s \in Library : s.id \in 1..3}
HeapLikes == {0, 1, 2}                     \* likes of update_priority in HeapSpec
HeapLimits == 0..(HeapCapacity + 1)        \* limits in HeapSpec
QueueSongs == {s \in Library : s.id \in 1..3}  \* the songs of QueueSpec
\* search_songs / search_artists queries in SearchSpec
Queries ==
  {s.title : s \in Library} \cup {s.artist : s \in Library} \cup
  {<<>>, <<"~">>, <<"s">>, <<"s", "e">>, <<"s", "E", "~">>, <<"s", "e", "o">>,
   <<"S", "e", "O">>, <<"s", "e", "o", "r">>, <<"x">>, <<"s", "e", "x">>,
   <<"s", "e", "o", "r", "i", "t", "a">>,
   <<"S", "E", "O", "R", "I", "T", "A">>,
   <<"a", "b">>, <<"a">>, <<"c">>, <<"s", "h", "a", "w", "n">>}

\* the song ids callers put in the upcoming buffer
BufferIds == SongIds

\* ------------------------------------------------------- the DLLNode heap
NULL == 0
WILD == -1             \* a pointer value that is neither NULL nor a node
CRASH == -2            \* result of a traversal that dereferenced NULL/WILD
Pool == 1..MaxNodes
Ptr == Pool \cup {NULL, WILD}

\* DLLNode: { int song_id; DLLNode *next; DLLNode *prev; }
DLLNode(id, n, p) == [song_id |-> id, next |-> n, prev |-> p]
ZeroNode == DLLNode(0, NULL, NULL)

\* dll_create: an empty list over a pool with nothing allocated
dll_create ==
  [mem |-> [a \in Pool |-> ZeroNode], live |-> {},
   head |-> NULL, tail |-> NULL, current |-> NULL, size |-> 0]

Min(S) == CHOOSE x \in S : \A y \in S : x <= y

\* Addresses that head, tail, current or a reachable node's links mention.
RECURSIVE Closure(_, _)
Closure(L, S) ==
  LET T == S \cup {L.mem[a].next : a \in S \cap Pool}
              \cup {L.mem[a].prev : a \in S \cap Pool}
  IN IF T = S THEN S ELSE Closure(L, T)

Referenced(L) == Closure(L, {L.head, L.tail, L.current}) \cap Pool

\* malloc(sizeof(DLLNode)): any address that is not allocated.  Addresses
\* nothing refers to are interchangeable, so the least of them stands for
\* all; a freed address that is still referred to is a separate outcome.
MallocChoices(L) ==
  LET free == Pool \ L.live
      fresh == free \ Referenced(L)
  IN (free \cap Referenced(L)) \cup (IF fresh = {} THEN {} ELSE {Min(fresh)})

\* What free() may leave in a node: each field either keeps its value or is
\* overwritten by the allocator (a song id that matches nothing, a NULL or
\* a wild pointer).
Clobbers ==
  [song_id : {"keep", "zero"}, next : {"keep", "null", "wild"},
   prev : {"keep", "null", "wild"}]
KeepAll == [song_id |-> "keep", next |-> "keep", prev |-> "keep"]

ClobberPtr(p, how) ==
  IF how = "keep" THEN p ELSE IF how = "null" THEN NULL ELSE WILD

Freed(n, k) ==
  DLLNode(IF k.song_id = "keep" THEN n.song_id ELSE 0,
          ClobberPtr(n.next, k.next), ClobberPtr(n.prev, k.prev))

\* Nodes that nothing refers to (freed or leaked) can never be read again:
\* their contents are kept in one canonical form.
Normalise(L) ==
  LET r == Referenced(L)
  IN [L EXCEPT !.mem = [a \in Pool |->
        IF a \in r THEN L.mem[a] ELSE ZeroNode]]

\* Result of a list operation: the list, the return value, and whether the
\* call dereferenced an invalid pointer instead of returning.
Res(L, r) == [L |-> L, ret |-> r, crash |-> FALSE]
Crashed(L) == [L |-> L, ret |-> FALSE, crash |-> TRUE]

\* dll_insert_end(list, song_id), with addr the address malloc returned
dll_insert_end(L, song_id, addr) ==
  IF L.head = NULL
  THEN Res([L EXCEPT !.mem[addr] = DLLNode(song_id, addr, addr),
                     !.live = @ \cup {addr},
                     !.head = addr, !.tail = addr, !.current = addr,
                     !.size = @ + 1], TRUE)
  ELSE IF L.tail \notin Pool \/ L.head \notin Pool
  THEN Crashed(L)
  ELSE LET m1 == [L.mem EXCEPT ![addr] = DLLNode(song_id, L.head, L.tail)]
           m2 == [m1 EXCEPT ![L.tail].next = addr]
           m3 == [m2 EXCEPT ![L.head].prev = addr]
       IN Res(Normalise([L EXCEPT !.mem = m3, !.live = @ \cup {addr},
                                  !.tail = addr, !.size = @ + 1]), TRUE)

\* dll_remove(list, node); k is what free() does to the node's memory,
\* dfree whether a second free() of the same address aborts
dll_remove(L, node, k, dfree) ==
  IF node = NULL \/ L.size = 0 THEN Res(L, FALSE)
  ELSE IF node \notin Pool THEN Crashed(L)
  ELSE
    LET U == IF L.size = 1
             THEN [L |-> [L EXCEPT !.head = NULL, !.tail = NULL,
                                   !.current = NULL], ok |-> TRUE]
             ELSE LET p == L.mem[node].prev
                  IN IF p \notin Pool THEN [L |-> L, ok |-> FALSE]
                     ELSE LET m1 == [L.mem EXCEPT ![p].next = L.mem[node].next]
                              n == m1[node].next
                          IN IF n \notin Pool THEN [L |-> L, ok |-> FALSE]
                             ELSE LET m2 == [m1 EXCEPT ![n].prev = m1[node].prev]
                                  IN [L |-> [L EXCEPT
                                        !.mem = m2,
                                        !.head = IF L.head = node
                                                 THEN m2[node].next ELSE @,
                                        !.tail = IF L.tail = node
                                                 THEN m2[node].prev ELSE @,
                                        !.current = IF L.current = node
                                                    THEN m2[node].next ELSE @],
                                      ok |-> TRUE]
    IN IF ~U.ok THEN Crashed(L)
       ELSE IF node \notin L.live /\ dfree THEN Crashed(L)
       ELSE LET F == [U.L EXCEPT !.live = @ \ {node}, !.size = @ - 1]
                G == IF node \in Referenced(F)
                     THEN [F EXCEPT !.mem[node] = Freed(@, k)] ELSE F
            IN Res(Normalise(G), TRUE)

\* dll_move_up(list, node): re-link node in front of its predecessor
dll_move_up(L, node) ==
  IF node = NULL \/ L.size < 2 THEN Res(L, FALSE)
  ELSE IF node \notin Pool THEN Crashed(L)
  ELSE
    LET prev == L.mem[node].prev
    IN IF prev \notin Pool THEN Crashed(L)
       ELSE
         LET p_prev == L.mem[prev].prev
             n_next == L.mem[node].next
         IN IF p_prev \notin Pool \/ n_next \notin Pool THEN Crashed(L)
            ELSE
              LET m1 == [L.mem EXCEPT ![p_prev].next = node]
                  m2 == [m1 EXCEPT ![node].prev = p_prev]
                  m3 == [m2 EXCEPT ![node].next = prev]
                  m4 == [m3 EXCEPT ![prev].prev = node]
                  m5 == [m4 EXCEPT ![prev].next = n_next]
                  m6 == [m5 EXCEPT ![n_next].prev = prev]
                  h == IF L.head = prev THEN node
                       ELSE IF L.head = node THEN prev ELSE L.head
                  t == IF L.tail = node THEN prev
                       ELSE IF L.tail = prev THEN node ELSE L.tail
              IN Res(Normalise([L EXCEPT !.mem = m6, !.head = h, !.tail = t]),
                     TRUE)

\* dll_move_down(list, node) == dll_move_up(list, node->next)
dll_move_down(L, node) ==
  IF node = NULL \/ L.size < 2 THEN Res(L, FALSE)
  ELSE IF node \notin Pool THEN Crashed(L)
  ELSE dll_move_up(L, L.mem[node].next)

\* dll_rotate(list, forward)
dll_rotate(L, forward) ==
  IF L.size < 2 THEN Res(L, TRUE)
  ELSE IF L.head \notin Pool \/ L.tail \notin Pool THEN Crashed(L)
  ELSE IF forward
       THEN Res(Normalise([L EXCEPT !.head = L.mem[L.head].next,
                                    !.tail = L.mem[L.tail].next]), TRUE)
       ELSE Res(Normalise([L EXCEPT !.head = L.mem[L.head].prev,
                                    !.tail = L.mem[L.tail].prev]), TRUE)

\* dll_find_by_id(list, song_id): the loop from position i at node cur
RECURSIVE find_from(_, _, _, _)
find_from(L, cur, i, song_id) ==
  IF i >= L.size THEN NULL
  ELSE IF cur \notin Pool THEN CRASH
  ELSE IF L.mem[cur].song_id = song_id THEN cur
  ELSE find_from(L, L.mem[cur].next, i + 1, song_id)

dll_find_by_id(L, song_id) ==
  IF L.size = 0 THEN NULL ELSE find_from(L, L.head, 0, song_id)

\* queue_snapshot / dll_display: the song ids of size nodes from head;
\* <<CRASH>> when the walk dereferences an invalid pointer
RECURSIVE walk_from(_, _, _)
walk_from(L, cur, i) ==
  IF i >= L.size THEN <<>>
  ELSE IF cur \notin Pool THEN <<CRASH>>
  ELSE LET rest == walk_from(L, L.mem[cur].next, i + 1)
       IN IF rest = <<CRASH>> THEN rest
          ELSE <<L.mem[cur].song_id>> \o rest

dll_display(L) == walk_from(L, L.head, 0)

\* dll_print(list): prints the head and follows next until it is back at
\* head.  steps counts the nodes printed: a walk that has printed more than
\* MaxNodes nodes without coming back to head is in a cycle that does not
\* hold head, and never ends.
RECURSIVE print_from(_, _, _)
print_from(L, cur, steps) ==
  IF cur \notin Pool THEN "crash"
  ELSE IF steps > 0 /\ cur = L.head THEN "returns"
  ELSE IF steps > MaxNodes THEN "loops"
  ELSE print_from(L, L.mem[cur].next, steps + 1)

dll_print(L) == print_from(L, L.head, 0)

dll_get_size(L) == L.size

\* ------------------------------------------------------------ max heap
\* MaxHeap: nodes[0..size-1] of HeapNode {song_id, priority}; the sequence
\* position k+1 holds array slot k.
HeapNode(id, pr) == [song_id |-> id, priority |-> pr]
InvalidHeapNode == HeapNode(-1, -1)

heap_create(capacity) == [nodes |-> <<>>, capacity |-> capacity]

heap_get_size(H) == Len(H.nodes)
heap_is_empty(H) == Len(H.nodes) = 0

swap_nodes(ns, i, j) == [ns EXCEPT ![i + 1] = ns[j + 1], ![j + 1] = ns[i + 1]]

\* heapifyUp(heap, index) on the node array
RECURSIVE heapifyUp(_, _)
heapifyUp(ns, index) ==
  IF index <= 0 THEN ns
  ELSE LET parent == (index - 1) \div 2
       IN IF ns[index + 1].priority > ns[parent + 1].priority
          THEN heapifyUp(swap_nodes(ns, index, parent), parent)
          ELSE ns

\* heapifyDown as it would be if it compared with the left child only
RECURSIVE heapifyDown_leftonly(_, _)
heapifyDown_leftonly(ns, index) ==
  LET left == 2 * index + 1
      largest == IF left < Len(ns)
                    /\ ns[left + 1].priority > ns[index + 1].priority
                 THEN left ELSE index
  IN IF largest # index
     THEN heapifyDown_leftonly(swap_nodes(ns, index, largest), largest)
     ELSE ns

\* heapifyDown(heap, index) on the node array (size = Len(ns))
RECURSIVE heapifyDown(_, _)
heapifyDown(ns, index) ==
  LET left == 2 * index + 1
      right == 2 * index + 2
      l1 == IF left < Len(ns) /\ ns[left + 1].priority > ns[index + 1].priority
            THEN left ELSE index
      largest == IF right < Len(ns)
                    /\ ns[right + 1].priority > ns[l1 + 1].priority
                 THEN right ELSE l1
  IN IF largest # index
     THEN heapifyDown(swap_nodes(ns, index, largest), largest)
     ELSE ns

\* find_song_index as it would be if its loop started at slot 1
find_song_index_skiproot(H, song_id) ==
  IF \E k \in 1..(Len(H.nodes) - 1) : H.nodes[k + 1].song_id = song_id
  THEN Min({k \in 1..(Len(H.nodes) - 1) : H.nodes[k + 1].song_id = song_id})
  ELSE -1

\* find_song_index(heap, song_id): first slot holding song_id, or -1
find_song_index(H, song_id) ==
  IF \E k \in 0..(Len(H.nodes) - 1) : H.nodes[k + 1].song_id = song_id
  THEN Min({k \in 0..(Len(H.nodes) - 1) : H.nodes[k + 1].song_id = song_id})
  ELSE -1

\* insertHeap without the capacity test
insertHeap_unbounded(H, song_id, priority) ==
  [H |-> [H EXCEPT !.nodes =
            heapifyUp(Append(H.nodes, HeapNode(song_id, priority)),
                      Len(H.nodes))],
   ret |-> TRUE]

\* insertHeap(heap, song_id, priority)
insertHeap(H, song_id, priority) ==
  IF Len(H.nodes) >= H.capacity THEN [H |-> H, ret |-> FALSE]
  ELSE [H |-> [H EXCEPT !.nodes =
                 heapifyUp(Append(H.nodes, HeapNode(song_id, priority)),
                           Len(H.nodes))],
        ret |-> TRUE]

\* extractMax as it would be without its heapifyDown
extractMax_nosift(H) ==
  IF Len(H.nodes) = 0 THEN [H |-> H, max |-> InvalidHeapNode]
  ELSE LET n == Len(H.nodes)
           moved == [H.nodes EXCEPT ![1] = H.nodes[n]]
       IN [H |-> [H EXCEPT !.nodes = SubSeq(moved, 1, n - 1)],
           max |-> H.nodes[1]]

\* heap_peek(heap)
heap_peek(H) == IF Len(H.nodes) = 0 THEN InvalidHeapNode ELSE H.nodes[1]

\* extractMax that drops the last slot without moving it to the root
extractMax_droplast(H) ==
  IF Len(H.nodes) = 0 THEN [H |-> H, max |-> InvalidHeapNode]
  ELSE [H |-> [H EXCEPT !.nodes = SubSeq(H.nodes, 1, Len(H.nodes) - 1)],
        max |-> H.nodes[1]]

\* extractMax(heap)
extractMax(H) ==
  IF Len(H.nodes) = 0 THEN [H |-> H, max |-> InvalidHeapNode]
  ELSE LET n == Len(H.nodes)
           moved == [H.nodes EXCEPT ![1] = H.nodes[n]]
           cut == SubSeq(moved, 1, n - 1)
       IN [H |-> [H EXCEPT !.nodes = IF n - 1 > 0 THEN heapifyDown(cut, 0)
                                      ELSE cut],
           max |-> H.nodes[1]]

\* heap_update_priority as it would be if it refused a song id it does not
\* hold instead of inserting it
heap_update_priority_noinsert(H, song_id, new_priority) ==
  LET index == find_song_index(H, song_id)
  IN IF index = -1 THEN [H |-> H, ret |-> FALSE]
     ELSE LET old_priority == H.nodes[index + 1].priority
              ns == [H.nodes EXCEPT ![index + 1].priority = new_priority]
          IN [H |-> [H EXCEPT !.nodes = IF new_priority > old_priority
                                         THEN heapifyUp(ns, index)
                                         ELSE heapifyDown(ns, index)],
              ret |-> TRUE]

\* heap_update_priority that sifts up whatever the direction of the change
heap_update_priority_uponly(H, song_id, new_priority) ==
  LET index == find_song_index(H, song_id)
  IN IF index = -1 THEN insertHeap(H, song_id, new_priority)
     ELSE LET ns == [H.nodes EXCEPT ![index + 1].priority = new_priority]
          IN [H |-> [H EXCEPT !.nodes = heapifyUp(ns, index)], ret |-> TRUE]

\* heap_update_priority(heap, song_id, new_priority)
heap_update_priority(H, song_id, new_priority) ==
  LET index == find_song_index(H, song_id)
  IN IF index = -1 THEN insertHeap(H, song_id, new_priority)
     ELSE LET old_priority == H.nodes[index + 1].priority
              ns == [H.nodes EXCEPT ![index + 1].priority = new_priority]
          IN [H |-> [H EXCEPT !.nodes = IF new_priority > old_priority
                                         THEN heapifyUp(ns, index)
                                         ELSE heapifyDown(ns, index)],
              ret |-> TRUE]

\* ------------------------------------------------------------------ trie
\* A TrieNode is identified by the letters on its path from the root; the
\* trie maps each existing node to {isEnd, song_ids}, song_ids being the
\* linked list from its first element.
UpperCase == <<"A", "B", "C", "D", "E", "F", "G", "H", "I", "J", "K", "L", "M",
               "N", "O", "P", "Q", "R", "S", "T", "U", "V", "W", "X", "Y", "Z">>
LowerCase == <<"a", "b", "c", "d", "e", "f", "g", "h", "i", "j", "k", "l", "m",
               "n", "o", "p", "q", "r", "s", "t", "u", "v", "w", "x", "y", "z">>

tolower(c) ==
  IF \E k \in 1..26 : UpperCase[k] = c
  THEN LowerCase[CHOOSE k \in 1..26 : UpperCase[k] = c]
  ELSE c

IsLowerLetter(c) == \E k \in 1..26 : LowerCase[k] = c

\* a string case-folded and stripped of everything but a..z
Fold(str) == SelectSeq([i \in 1..Len(str) |-> tolower(str[i])], IsLowerLetter)

\* the loop of trie_insert as it would be without tolower: a capital is no
\* a..z character and is skipped
RECURSIVE insert_walk_nofold(_, _, _, _)
insert_walk_nofold(T, key, i, cur) ==
  IF i > Len(key) THEN [T |-> T, node |-> cur]
  ELSE LET c == key[i]
       IN IF ~IsLowerLetter(c) THEN insert_walk_nofold(T, key, i + 1, cur)
          ELSE LET child == Append(cur, c)
                   T1 == IF child \in DOMAIN T THEN T
                         ELSE T @@ (child :> [isEnd |-> FALSE, song_ids |-> <<>>])
               IN insert_walk_nofold(T1, key, i + 1, child)

trie_create_node == [isEnd |-> FALSE, song_ids |-> <<>>]

trie_create == (<<>> :> trie_create_node)

\* the loop of trie_insert from key[i] at node cur: creates missing children
RECURSIVE insert_walk(_, _, _, _)
insert_walk(T, key, i, cur) ==
  IF i > Len(key) THEN [T |-> T, node |-> cur]
  ELSE LET c == tolower(key[i])
       IN IF ~IsLowerLetter(c) THEN insert_walk(T, key, i + 1, cur)
          ELSE LET child == Append(cur, c)
                   T1 == IF child \in DOMAIN T THEN T
                         ELSE T @@ (child :> trie_create_node)
               IN insert_walk(T1, key, i + 1, child)

\* trie_insert(root, key, song_id)
trie_insert(T, key, song_id) ==
  LET w == insert_walk(T, key, 1, <<>>)
  IN [w.T EXCEPT ![w.node] =
        [isEnd |-> TRUE, song_ids |-> <<song_id>> \o w.T[w.node].song_ids]]

\* the loop of trie_search_prefix as it would be if a character outside
\* a..z ended the search instead of being skipped
RECURSIVE search_walk_noskip(_, _, _, _)
search_walk_noskip(T, prefix, i, cur) ==
  IF i > Len(prefix) THEN T[cur].song_ids
  ELSE LET c == tolower(prefix[i])
       IN IF ~IsLowerLetter(c) THEN <<>>
          ELSE IF Append(cur, c) \notin DOMAIN T THEN <<>>
          ELSE search_walk_noskip(T, prefix, i + 1, Append(cur, c))

\* the loop of trie_search_prefix from prefix[i] at node cur
RECURSIVE search_walk(_, _, _, _)
search_walk(T, prefix, i, cur) ==
  IF i > Len(prefix) THEN T[cur].song_ids
  ELSE LET c == tolower(prefix[i])
       IN IF ~IsLowerLetter(c) THEN search_walk(T, prefix, i + 1, cur)
          ELSE IF Append(cur, c) \notin DOMAIN T THEN <<>>
          ELSE search_walk(T, prefix, i + 1, Append(cur, c))

\* the id lists of the nodes in S, one after the other (collect_ids)
RECURSIVE collect_ids(_, _)
collect_ids(T, S) ==
  IF S = {} THEN <<>>
  ELSE LET p == CHOOSE x \in S : \A y \in S : Len(x) <= Len(y)
       IN T[p].song_ids \o collect_ids(T, S \ {p})

\* trie_search_prefix as it would be if it collected the ids of the whole
\* subtree under the prefix node
trie_search_prefix_subtree(T, prefix) ==
  LET k == Fold(prefix)
  IN collect_ids(T, {p \in DOMAIN T :
                      Len(p) >= Len(k) /\ SubSeq(p, 1, Len(k)) = k})

\* trie_search_prefix(root, prefix): the song id list of the prefix node
trie_search_prefix(T, prefix) == search_walk(T, prefix, 1, <<>>)

\* ----------------------------------------------------------------- stack
\* Stack: linked list from top (position 1) and a size counter
Operation(type, id, pos, pr) ==
  [type |-> type, song_id |-> id, old_position |-> pos, old_priority |-> pr]
InvalidOperation == Operation("OP_ADD", -1, -1, -1)

stack_create == [top |-> <<>>, size |-> 0]
\* stack_push that links the new node behind the last one
stack_push_bottom(S, op) == [top |-> S.top \o <<op>>, size |-> S.size + 1]
stack_push(S, op) == [top |-> <<op>> \o S.top, size |-> S.size + 1]
stack_pop(S) ==
  IF S.top = <<>> THEN [S |-> S, op |-> InvalidOperation]
  ELSE [S |-> [top |-> Tail(S.top), size |-> S.size - 1], op |-> Head(S.top)]
stack_peek(S) == IF S.top = <<>> THEN InvalidOperation ELSE Head(S.top)
stack_is_empty(S) == S.top = <<>>
stack_get_size(S) == S.size
stack_clear(S) == [top |-> <<>>, size |-> 0]

\* analogue of the position loop of manager_remove_song: hops from head
\* to node (node was found by dll_find_by_id, so the walk is the same one)
RECURSIVE position_of(_, _, _, _)
position_of(L, temp, i, node) ==
  IF i >= L.size \/ temp = node \/ temp \notin Pool THEN i
  ELSE position_of(L, L.mem[temp].next, i + 1, node)

\* --------------------------------------------------------------- manager
\* ---- upcoming buffer (queue.c) ----
\* QueueNode: { int song_id; QueueNode *next; }
QueueNode(id, n) == [song_id |-> id, next |-> n]

\* A QueueNode lies either at an address the playback list never held
\* (QPrivate) or at one the list's nodes are drawn from (Pool): malloc hands
\* out any block that is free, whoever freed it.
QPrivate == (MaxNodes + 1)..(MaxNodes + MaxUpcoming)
QAddr == Pool \cup QPrivate

\* queue_create: front = rear = NULL, size = 0.  own is the set of addresses
\* of the buffer's allocated nodes, mem their contents.
queue_create ==
  [front |-> NULL, rear |-> NULL, size |-> 0, own |-> {},
   mem |-> [a \in QAddr |-> QueueNode(0, NULL)]]

\* MusicQueueManager: the owned structures (upcoming is the FIFO of song ids)
manager_create(heap_capacity) ==
  [queue |-> dll_create,
   recommendations |-> heap_create(heap_capacity),
   undo_stack |-> stack_create,
   redo_stack |-> stack_create,
   upcoming |-> queue_create,
   song_trie |-> trie_create,
   artist_trie |-> trie_create]

\* Result of a manager call
MRes(M, r) == [M |-> M, ret |-> r, crash |-> FALSE]
MCrashed(M) == [M |-> M, ret |-> FALSE, crash |-> TRUE]

\* the record-and-clear tail shared by the mutators
Record(M, op) ==
  [M EXCEPT !.undo_stack = stack_push(M.undo_stack, op),
            !.redo_stack = stack_clear(M.redo_stack)]

\* manager_add_song(mgr, song_id, title, artist, likes, play_count)
manager_add_song(M, song_id, title, artist, likes, play_count, addr) ==
  LET ins == dll_insert_end(M.queue, song_id, addr)
  IN IF ins.crash THEN MCrashed(M)
     ELSE
       LET priority == likes * 2 + play_count
           M1 == [M EXCEPT
                    !.queue = ins.L,
                    !.song_trie = trie_insert(M.song_trie, title, song_id),
                    !.artist_trie = trie_insert(M.artist_trie, artist, song_id),
                    !.recommendations =
                       heap_update_priority(M.recommendations, song_id,
                                            priority).H]
           op == Operation("OP_ADD", song_id, ins.L.size - 1, priority)
       IN MRes(Record(M1, op), TRUE)

\* manager_remove_song(mgr, song_id)
manager_remove_song(M, song_id, k, dfree) ==
  LET node == dll_find_by_id(M.queue, song_id)
  IN IF node = CRASH THEN MCrashed(M)
     ELSE IF node = NULL THEN MRes(M, FALSE)
     ELSE
       LET position == position_of(M.queue, M.queue.head, 0, node)
           rem == dll_remove(M.queue, node, k, dfree)
       IN IF rem.crash THEN MCrashed(M)
          ELSE MRes(Record([M EXCEPT !.queue = rem.L],
                           Operation("OP_REMOVE", song_id, position, 0)),
                    TRUE)

\* manager_skip_next as it would be without its stack_clear(redo_stack)
manager_skip_next_noclear(M) ==
  LET cur == M.queue.current
  IN IF cur = NULL THEN MRes(M, FALSE)
     ELSE IF cur \notin Pool THEN MCrashed(M)
     ELSE
       LET old_song_id == M.queue.mem[cur].song_id
           nxt == M.queue.mem[cur].next
       IN IF nxt \notin Pool THEN MCrashed(M)
          ELSE MRes([M EXCEPT
                       !.queue = Normalise([M.queue EXCEPT !.current = nxt]),
                       !.undo_stack =
                          stack_push(M.undo_stack,
                                     Operation("OP_SKIP", old_song_id, -1, 0))],
                    TRUE)

\* manager_skip_next(mgr)
manager_skip_next(M) ==
  LET cur == M.queue.current
  IN IF cur = NULL THEN MRes(M, FALSE)
     ELSE IF cur \notin Pool THEN MCrashed(M)
     ELSE
       LET old_song_id == M.queue.mem[cur].song_id
           nxt == M.queue.mem[cur].next
       IN IF nxt \notin Pool THEN MCrashed(M)     \* printf reads the new current
          ELSE MRes(Record([M EXCEPT !.queue =
                              Normalise([M.queue EXCEPT !.current = nxt])],
                           Operation("OP_SKIP", old_song_id, -1, 0)),
                    TRUE)

\* manager_skip_prev(mgr)
manager_skip_prev(M) ==
  LET cur == M.queue.current
  IN IF cur = NULL THEN MRes(M, FALSE)
     ELSE IF cur \notin Pool THEN MCrashed(M)
     ELSE
       LET old_song_id == M.queue.mem[cur].song_id
           prv == M.queue.mem[cur].prev
       IN IF prv \notin Pool THEN MCrashed(M)
          ELSE MRes(Record([M EXCEPT !.queue =
                              Normalise([M.queue EXCEPT !.current = prv])],
                           Operation("OP_SKIP", old_song_id, -1, 0)),
                    TRUE)

\* manager_move_up as it would be if it recorded the move before looking
\* at the result of dll_move_up
manager_move_up_eager(M, song_id) ==
  LET node == dll_find_by_id(M.queue, song_id)
  IN IF node = CRASH THEN MCrashed(M)
     ELSE IF node = NULL THEN MRes(M, FALSE)
     ELSE LET mv == dll_move_up(M.queue, node)
          IN IF mv.crash THEN MCrashed(M)
             ELSE MRes(Record([M EXCEPT !.queue = mv.L],
                              Operation("OP_MOVE_UP", song_id, -1, 0)),
                       mv.ret)

\* manager_move_up(mgr, song_id)
manager_move_up(M, song_id) ==
  LET node == dll_find_by_id(M.queue, song_id)
  IN IF node = CRASH THEN MCrashed(M)
     ELSE IF node = NULL THEN MRes(M, FALSE)
     ELSE LET mv == dll_move_up(M.queue, node)
          IN IF mv.crash THEN MCrashed(M)
             ELSE IF ~mv.ret THEN MRes(M, FALSE)
             ELSE MRes(Record([M EXCEPT !.queue = mv.L],
                              Operation("OP_MOVE_UP", song_id, -1, 0)),
                       TRUE)

\* manager_move_down(mgr, song_id)
manager_move_down(M, song_id) ==
  LET node == dll_find_by_id(M.queue, song_id)
  IN IF node = CRASH THEN MCrashed(M)
     ELSE IF node = NULL THEN MRes(M, FALSE)
     ELSE LET mv == dll_move_down(M.queue, node)
          IN IF mv.crash THEN MCrashed(M)
             ELSE IF ~mv.ret THEN MRes(M, FALSE)
             ELSE MRes(Record([M EXCEPT !.queue = mv.L],
                              Operation("OP_MOVE_DOWN", song_id, -1, 0)),
                       TRUE)

\* manager_rotate_queue as it would be if it recorded the rotation
manager_rotate_queue_recorded(M, forward) ==
  LET rot == dll_rotate(M.queue, forward)
  IN IF rot.crash THEN MCrashed(M)
     ELSE MRes(Record([M EXCEPT !.queue = rot.L],
                      Operation("OP_SKIP", 0, -1, 0)), TRUE)

\* manager_rotate_queue(mgr, forward)
manager_rotate_queue(M, forward) ==
  LET rot == dll_rotate(M.queue, forward)
  IN IF rot.crash THEN MCrashed(M)
     ELSE MRes([M EXCEPT !.queue = rot.L], TRUE)

\* manager_update_priority(mgr, song_id, likes, play_count)
manager_update_priority(M, song_id, likes, play_count) ==
  LET priority == likes * 2 + play_count
      upd == heap_update_priority(M.recommendations, song_id, priority)
  IN IF upd.ret
     THEN MRes(Record([M EXCEPT !.recommendations = upd.H],
                      Operation("OP_UPDATE_PRIORITY", song_id, -1, priority)),
               TRUE)
     ELSE MRes(M, FALSE)

\* manager_undo with the trailing stack_pop of the reversing cases applied to
\* the default case too
manager_undo_popsdefault(M, addr, k, dfree) ==
  IF stack_is_empty(M.undo_stack) THEN MRes(M, FALSE)
  ELSE
    LET popped == stack_pop(M.undo_stack)
        op == popped.op
        M1 == [M EXCEPT !.undo_stack = popped.S,
                        !.redo_stack = stack_push(M.redo_stack, op)]
        PopUndo(X) == [X EXCEPT !.undo_stack = stack_pop(X.undo_stack).S]
    IN CASE op.type = "OP_ADD" ->
              LET r == manager_remove_song(M1, op.song_id, k, dfree)
              IN IF r.crash THEN MCrashed(M) ELSE MRes(PopUndo(r.M), TRUE)
         [] op.type = "OP_REMOVE" ->
              LET ins == dll_insert_end(M1.queue, op.song_id, addr)
              IN IF ins.crash THEN MCrashed(M)
                 ELSE MRes(PopUndo([M1 EXCEPT !.queue = ins.L]), TRUE)
         [] op.type = "OP_MOVE_UP" ->
              LET r == manager_move_down(M1, op.song_id)
              IN IF r.crash THEN MCrashed(M) ELSE MRes(PopUndo(r.M), TRUE)
         [] op.type = "OP_MOVE_DOWN" ->
              LET r == manager_move_up(M1, op.song_id)
              IN IF r.crash THEN MCrashed(M) ELSE MRes(PopUndo(r.M), TRUE)
         [] OTHER -> MRes(PopUndo(M1), TRUE)

\* manager_undo(mgr); addr, k, dfree are the allocator outcomes of the
\* nested calls
manager_undo(M, addr, k, dfree) ==
  IF stack_is_empty(M.undo_stack) THEN MRes(M, FALSE)
  ELSE
    LET popped == stack_pop(M.undo_stack)
        op == popped.op
        M1 == [M EXCEPT !.undo_stack = popped.S,
                        !.redo_stack = stack_push(M.redo_stack, op)]
        PopUndo(X) == [X EXCEPT !.undo_stack = stack_pop(X.undo_stack).S]
    IN CASE op.type = "OP_ADD" ->
              LET r == manager_remove_song(M1, op.song_id, k, dfree)
              IN IF r.crash THEN MCrashed(M) ELSE MRes(PopUndo(r.M), TRUE)
         [] op.type = "OP_REMOVE" ->
              LET ins == dll_insert_end(M1.queue, op.song_id, addr)
              IN IF ins.crash THEN MCrashed(M)
                 ELSE MRes(PopUndo([M1 EXCEPT !.queue = ins.L]), TRUE)
         [] op.type = "OP_MOVE_UP" ->
              LET r == manager_move_down(M1, op.song_id)
              IN IF r.crash THEN MCrashed(M) ELSE MRes(PopUndo(r.M), TRUE)
         [] op.type = "OP_MOVE_DOWN" ->
              LET r == manager_move_up(M1, op.song_id)
              IN IF r.crash THEN MCrashed(M) ELSE MRes(PopUndo(r.M), TRUE)
         [] OTHER -> MRes(M1, TRUE)

\* manager_redo(mgr)
manager_redo(M) ==
  IF stack_is_empty(M.redo_stack) THEN MRes(M, FALSE)
  ELSE MRes([M EXCEPT !.redo_stack = stack_pop(M.redo_stack).S], TRUE)

\* the extraction loop of manager_get_recommendations: the ids extracted
\* and what is left of temp_heap
RECURSIVE extract_loop(_, _, _)
extract_loop(temp_heap, count, limit) ==
  IF heap_is_empty(temp_heap) \/ ~(count < limit)
  THEN [H |-> temp_heap, ids |-> <<>>]
  ELSE LET e == extractMax(temp_heap)
           rest == extract_loop(e.H, count + 1, limit)
       IN [H |-> rest.H, ids |-> <<e.max.song_id>> \o rest.ids]

\* the copy loop of manager_get_recommendations: insertHeap of slots i..
RECURSIVE copy_loop(_, _, _)
copy_loop(H, temp_heap, i) ==
  IF i >= Len(H.nodes) THEN temp_heap
  ELSE copy_loop(H, insertHeap(temp_heap, H.nodes[i + 1].song_id,
                               H.nodes[i + 1].priority).H, i + 1)

\* manager_get_recommendations as it would be if it extracted from the
\* live heap instead of a copy
manager_get_recommendations_inplace(M, limit) ==
  IF Len(M.recommendations.nodes) = 0 THEN [M |-> M, list |-> <<>>]
  ELSE LET ex == extract_loop(M.recommendations, 0, limit)
       IN [M |-> [M EXCEPT !.recommendations = ex.H], list |-> ex.ids]

\* manager_get_recommendations(mgr, limit): the manager after the call and
\* the returned id list (temp_heap is destroyed before returning)
manager_get_recommendations(M, limit) ==
  IF Len(M.recommendations.nodes) = 0 THEN [M |-> M, list |-> <<>>]
  ELSE LET temp_heap == copy_loop(M.recommendations,
                                  heap_create(M.recommendations.capacity), 0)
           ex == extract_loop(temp_heap, 0, limit)
       IN [M |-> M, list |-> ex.ids]

\* manager_search_songs / manager_search_artists
manager_search_songs(M, query) == trie_search_prefix(M.song_trie, query)
manager_search_artists(M, query) == trie_search_prefix(M.artist_trie, query)

\* manager_print_cdll(mgr)
manager_print_cdll(M) == dll_print(M.queue)

\* manager_get_current_song(mgr); CRASH when current is a wild pointer
manager_get_current_song(M) ==
  IF M.queue.current = NULL THEN -1
  ELSE IF M.queue.current \notin Pool THEN CRASH
  ELSE M.queue.mem[M.queue.current].song_id

\* ------------------------------------------------------- the state machine
VARIABLES
  mgr,       \* the MusicQueueManager
  crashed,   \* the process died on an invalid dereference
  ncalls     \* number of mutator calls that returned true so far

vars == <<mgr, crashed, ncalls>>

Init ==
  /\ \E capacity \in 1..MaxCapacity : mgr = manager_create(capacity)
  /\ crashed = FALSE
  /\ ncalls = 0

\* what the accessors show of the playback queue
View(M) ==
  [snapshot |-> dll_display(M.queue),
   size |-> dll_get_size(M.queue),
   current |-> manager_get_current_song(M)]

CanCall == ~crashed /\ ncalls < MaxCalls

\* a mutator call finished with result r
Mutate(r) ==
  /\ mgr' = r.M
  /\ crashed' = r.crash
  /\ ncalls' = IF r.ret THEN ncalls + 1 ELSE ncalls

\* an accessor call returned out (<<CRASH>>: it never returned)
Observe(out) ==
  /\ crashed' = (out = <<CRASH>>)
  /\ UNCHANGED <<mgr, ncalls>>

\* Every link in use joins two allocated nodes that point at each other.
LinksSound(L) ==
  /\ Referenced(L) \subseteq L.live
  /\ \A a \in Referenced(L) :
        /\ L.mem[a].next \in Pool
        /\ L.mem[a].prev \in Pool
        /\ L.mem[L.mem[a].next].prev = a
        /\ L.mem[L.mem[a].prev].next = a

\* The outcomes of free() in state M.  While the links are sound an
\* unlinked node is referred to by nothing and is freed once, so what free()
\* leaves in it is never seen and one outcome stands for all.
FreeChoices(M) ==
  IF LinksSound(M.queue) THEN [k : {KeepAll}, dfree : {FALSE}]
  ELSE [k : Clobbers, dfree : BOOLEAN]

AddSong ==
  /\ CanCall
  /\ \E s \in Catalog, likes \in Likes, plays \in Plays,
        addr \in MallocChoices(mgr.queue) :
       Mutate(manager_add_song(mgr, s.id, s.title, s.artist, likes, plays,
                               addr))

RemoveSong ==
  /\ CanCall
  /\ \E id \in SongIds, f \in FreeChoices(mgr) :
       Mutate(manager_remove_song(mgr, id, f.k, f.dfree))

SkipNext == CanCall /\ Mutate(manager_skip_next(mgr))

SkipPrev == CanCall /\ Mutate(manager_skip_prev(mgr))

MoveUp ==
  /\ CanCall
  /\ \E id \in SongIds : Mutate(manager_move_up(mgr, id))

MoveDown ==
  /\ CanCall
  /\ \E id \in SongIds : Mutate(manager_move_down(mgr, id))

RotateQueue ==
  /\ CanCall
  /\ \E forward \in BOOLEAN : Mutate(manager_rotate_queue(mgr, forward))

UpdatePriority ==
  /\ CanCall
  /\ \E id \in SongIds, likes \in Likes, plays \in Plays :
       Mutate(manager_update_priority(mgr, id, likes, plays))

\* the allocator outcomes manager_undo may meet in state M: an address for
\* the node a REMOVE record re-inserts, the fate of a node it frees
UndoChoices(M) ==
  IF ~stack_is_empty(M.undo_stack) /\ stack_peek(M.undo_stack).type = "OP_REMOVE"
  THEN [addr : MallocChoices(M.queue), k : {KeepAll}, dfree : {FALSE}]
  ELSE {[addr |-> NULL, k |-> f.k, dfree |-> f.dfree] : f \in FreeChoices(M)}

Undo ==
  /\ CanCall
  /\ \E o \in UndoChoices(mgr) : Mutate(manager_undo(mgr, o.addr, o.k, o.dfree))

Redo == CanCall /\ Mutate(manager_redo(mgr))

CurrentSong == ~crashed /\ Observe(<<manager_get_current_song(mgr)>>)

QueueSize == ~crashed /\ Observe(<<dll_get_size(mgr.queue)>>)

QueueSnapshot == ~crashed /\ Observe(dll_display(mgr.queue))

GetRecommendations ==
  /\ ~crashed
  /\ \E limit \in Limits :
       /\ mgr' = manager_get_recommendations(mgr, limit).M
       /\ UNCHANGED <<crashed, ncalls>>

SearchSongs ==
  /\ ~crashed
  /\ \E query \in Titles : Observe(manager_search_songs(mgr, query))

SearchArtists ==
  /\ ~crashed
  /\ \E query \in Artists : Observe(manager_search_artists(mgr, query))

Next ==
  \/ AddSong \/ RemoveSong \/ SkipNext \/ SkipPrev \/ MoveUp \/ MoveDown
  \/ RotateQueue \/ UpdatePriority \/ Undo \/ Redo
  \/ CurrentSong \/ QueueSize \/ QueueSnapshot \/ GetRecommendations
  \/ SearchSongs \/ SearchArtists

Spec == Init /\ [][Next]_vars

\* ------------------------------------- the popularity index on its own
\* add_song, update_priority and get_recommendations over three songs and
\* three priorities, so that the heap grows to a root with two children.
HeapInit ==
  /\ mgr = manager_create(HeapCapacity)
  /\ crashed = FALSE
  /\ ncalls = 0

HeapAddSong ==
  /\ CanCall
  /\ \E s \in HeapSongs, likes \in Likes, plays \in Plays,
        addr \in MallocChoices(mgr.queue) :
       Mutate(manager_add_song(mgr, s.id, s.title, s.artist, likes, plays,
                               addr))

HeapUpdatePriority ==
  /\ CanCall
  /\ \E s \in HeapSongs, likes \in HeapLikes, plays \in Plays :
       Mutate(manager_update_priority(mgr, s.id, likes, plays))

HeapGetRecommendations ==
  /\ ~crashed
  /\ \E limit \in HeapLimits :
       /\ mgr' = manager_get_recommendations(mgr, limit).M
       /\ UNCHANGED <<crashed, ncalls>>

HeapNext == HeapAddSong \/ HeapUpdatePriority \/ HeapGetRecommendations

HeapSpec == HeapInit /\ [][HeapNext]_vars

\* ---------------------------------------------- the search index on its own
\* add_song and remove_song over the four songs of the library, and the two
\* searches over queries that fold onto, before and past the inserted keys.
SearchInit ==
  /\ \E capacity \in 1..MaxCapacity : mgr = manager_create(capacity)
  /\ crashed = FALSE
  /\ ncalls = 0

SearchAddSong ==
  /\ CanCall
  /\ \E s \in Library, plays \in Plays, addr \in MallocChoices(mgr.queue) :
       Mutate(manager_add_song(mgr, s.id, s.title, s.artist, 0, plays, addr))

SearchRemoveSong ==
  /\ CanCall
  /\ \E s \in Library, f \in FreeChoices(mgr) :
       Mutate(manager_remove_song(mgr, s.id, f.k, f.dfree))

SearchSongsQuery ==
  /\ ~crashed
  /\ \E query \in Queries : Observe(manager_search_songs(mgr, query))

SearchArtistsQuery ==
  /\ ~crashed
  /\ \E query \in Queries : Observe(manager_search_artists(mgr, query))

SearchNext ==
  SearchAddSong \/ SearchRemoveSong \/ SearchSongsQuery \/ SearchArtistsQuery

SearchSpec == SearchInit /\ [][SearchNext]_vars

\* -------------------------------------------- the playback queue on its own
\* The queue-editing calls and undo over three different songs, so that
\* every entry of a full queue can be told from the others.
QueueInit ==
  /\ mgr = manager_create(HeapCapacity)
  /\ crashed = FALSE
  /\ ncalls = 0

QueueAddSong ==
  /\ CanCall
  /\ \E s \in QueueSongs, plays \in Plays, addr \in MallocChoices(mgr.queue) :
       Mutate(manager_add_song(mgr, s.id, s.title, s.artist, 0, plays, addr))

QueueRemoveSong ==
  /\ CanCall
  /\ \E s \in QueueSongs, f \in FreeChoices(mgr) :
       Mutate(manager_remove_song(mgr, s.id, f.k, f.dfree))

QueueSkipNext == CanCall /\ Mutate(manager_skip_next(mgr))

QueueSkipPrev == CanCall /\ Mutate(manager_skip_prev(mgr))

QueueMoveUp ==
  /\ CanCall
  /\ \E s \in QueueSongs : Mutate(manager_move_up(mgr, s.id))

QueueMoveDown ==
  /\ CanCall
  /\ \E s \in QueueSongs : Mutate(manager_move_down(mgr, s.id))

QueueRotate ==
  /\ CanCall
  /\ \E forward \in BOOLEAN : Mutate(manager_rotate_queue(mgr, forward))

QueueUndo ==
  /\ CanCall
  /\ \E o \in UndoChoices(mgr) : Mutate(manager_undo(mgr, o.addr, o.k, o.dfree))

QueueNext ==
  \/ QueueAddSong \/ QueueRemoveSong \/ QueueSkipNext \/ QueueSkipPrev
  \/ QueueMoveUp \/ QueueMoveDown \/ QueueRotate \/ QueueUndo

QueueSpec == QueueInit /\ [][QueueNext]_vars

\* ---- the upcoming buffer beside the playback queue ----
\* a QueueNode pointer as the playback list's code reads it
ToDll(p) == IF p \in Pool \cup {NULL} THEN p ELSE WILD

\* The buffer's nodes that lie in the list's pool are the memory the list's
\* dangling pointers name: the list's view of them is what the buffer wrote.
Mirror(M) ==
  LET U == M.upcoming
      m == [a \in Pool |->
              IF a \in U.own
              THEN DLLNode(U.mem[a].song_id, ToDll(U.mem[a].next),
                           M.queue.mem[a].prev)
              ELSE M.queue.mem[a]]
      u == [a \in QAddr |-> IF a \in U.own THEN U.mem[a] ELSE QueueNode(0, NULL)]
  IN [M EXCEPT !.queue = Normalise([M.queue EXCEPT !.mem = m]),
               !.upcoming.mem = u]

\* What a call on the playback list, that took the manager from M to R, did
\* to the buffer: a store through a dangling list pointer lands in the
\* QueueNode now at that address, and a free() of it releases the QueueNode.
Disturb(M, R) ==
  LET U == M.upcoming
      L == R.queue
      gone == {a \in U.own \cap Pool : a \notin L.live}
      hit == {a \in (U.own \cap Pool) \ gone : a \in Referenced(L)}
  IN [R EXCEPT !.upcoming =
        [U EXCEPT
           !.own = @ \ gone,
           !.mem = [a \in QAddr |->
                      IF a \in gone THEN QueueNode(0, NULL)
                      ELSE IF a \in hit
                      THEN QueueNode(L.mem[a].song_id,
                                     IF L.mem[a].next = ToDll(U.mem[a].next)
                                     THEN U.mem[a].next ELSE L.mem[a].next)
                      ELSE U.mem[a]]]]

\* the result r of a manager call made in state M, seen with the buffer
Disturbed(M, r) == [r EXCEPT !.M = Disturb(M, r.M)]

\* malloc(sizeof(QueueNode)): the least free address the list never held,
\* or a block the list has freed and still refers to
QMallocChoices(M) ==
  LET fresh == QPrivate \ M.upcoming.own
  IN ((Pool \ M.queue.live) \cap Referenced(M.queue))
       \cup (IF fresh = {} THEN {} ELSE {Min(fresh)})

\* the node at address a as queue.c reads it
QRead(M, a) ==
  IF a \in M.upcoming.own THEN M.upcoming.mem[a]
  ELSE QueueNode(M.queue.mem[a].song_id, M.queue.mem[a].next)

\* queue_enqueue(mgr->upcoming, song_id), with addr the address malloc returned
queue_enqueue(M, song_id, addr) ==
  LET U == M.upcoming
      new == [U EXCEPT !.mem[addr] = QueueNode(song_id, NULL),
                       !.own = @ \cup {addr}]
      L1 == IF addr \in Pool
            THEN [M.queue EXCEPT !.live = @ \cup {addr}] ELSE M.queue
  IN IF U.rear = NULL
     THEN MRes(Mirror([M EXCEPT
                 !.queue = L1,
                 !.upcoming = [new EXCEPT !.front = addr, !.rear = addr,
                                          !.size = @ + 1]]), TRUE)
     ELSE IF U.rear \in new.own
     THEN MRes(Mirror([M EXCEPT
                 !.queue = L1,
                 !.upcoming = [new EXCEPT !.mem[U.rear].next = addr,
                                          !.rear = addr, !.size = @ + 1]]),
               TRUE)
     ELSE IF U.rear \in Pool
     THEN MRes(Mirror([M EXCEPT
                 !.queue = [L1 EXCEPT !.mem[U.rear].next = ToDll(addr)],
                 !.upcoming = [new EXCEPT !.rear = addr, !.size = @ + 1]]),
               TRUE)
     ELSE MCrashed(M)

\* queue_dequeue(mgr->upcoming); k is what free() does to the node's memory,
\* dfree whether a second free() of the same address aborts.  ret is the
\* song id returned, -1 on an empty queue.
queue_dequeue(M, k, dfree) ==
  LET U == M.upcoming
      temp == U.front
  IN IF temp = NULL THEN [M |-> M, ret |-> -1, crash |-> FALSE]
     ELSE IF temp \notin U.own \cup Pool THEN [MCrashed(M) EXCEPT !.ret = -1]
     ELSE IF temp \notin U.own /\ temp \notin M.queue.live /\ dfree
     THEN [MCrashed(M) EXCEPT !.ret = -1]
     ELSE
       LET node == QRead(M, temp)
           L1 == IF temp \in Pool
                 THEN [M.queue EXCEPT !.live = @ \ {temp},
                                      !.mem[temp] = Freed(@, k)]
                 ELSE M.queue
           U1 == [U EXCEPT !.front = node.next,
                           !.rear = IF node.next = NULL THEN NULL ELSE @,
                           !.own = @ \ {temp},
                           !.size = @ - 1]
       IN [M |-> Mirror([M EXCEPT !.queue = L1, !.upcoming = U1]),
           ret |-> node.song_id, crash |-> FALSE]

\* queue_peek(mgr->upcoming)
queue_peek(M) ==
  IF M.upcoming.front \notin M.upcoming.own \cup Pool THEN -1
  ELSE QRead(M, M.upcoming.front).song_id

\* the outcomes of free() in queue_dequeue: what it leaves in the node is
\* seen only when the playback list still refers to that address
QFreeChoices(M) ==
  IF M.upcoming.front \in Referenced(M.queue)
  THEN [k : Clobbers, dfree : BOOLEAN]
  ELSE [k : {KeepAll}, dfree : {FALSE}]

BufferCanCall == ~crashed /\ ncalls < MaxBufferCalls

BufferInit ==
  /\ mgr = manager_create(HeapCapacity)
  /\ crashed = FALSE
  /\ ncalls = 0

BufferAddSong ==
  /\ BufferCanCall
  /\ \E s \in Catalog, plays \in Plays, addr \in MallocChoices(mgr.queue) :
       Mutate(Disturbed(mgr, manager_add_song(mgr, s.id, s.title, s.artist,
                                               0, plays, addr)))

BufferRemoveSong ==
  /\ BufferCanCall
  /\ \E id \in SongIds, f \in FreeChoices(mgr) :
       Mutate(Disturbed(mgr, manager_remove_song(mgr, id, f.k, f.dfree)))

BufferMoveUp ==
  /\ BufferCanCall
  /\ \E id \in SongIds : Mutate(Disturbed(mgr, manager_move_up(mgr, id)))

BufferEnqueue ==
  /\ BufferCanCall
  /\ \E id \in BufferIds, addr \in QMallocChoices(mgr) :
       Mutate(queue_enqueue(mgr, id, addr))

BufferDequeue ==
  /\ BufferCanCall
  /\ \E f \in QFreeChoices(mgr) :
       LET d == queue_dequeue(mgr, f.k, f.dfree)
       IN /\ mgr' = d.M
          /\ crashed' = d.crash
          /\ ncalls' = IF d.ret # -1 THEN ncalls + 1 ELSE ncalls

BufferNext ==
  \/ BufferAddSong \/ BufferRemoveSong \/ BufferMoveUp
  \/ BufferEnqueue \/ BufferDequeue

BufferSpec == BufferInit /\ [][BufferNext]_vars

\* ------------------------------------------------------------ properties
\* the node k links after n by next (NULL/WILD once the chain leaves the pool)
RECURSIVE Hop(_, _, _)
Hop(L, n, k) ==
  IF k = 0 \/ n \notin Pool THEN n ELSE Hop(L, L.mem[n].next, k - 1)

\* the queue entries: what following next from head reaches
Entries(L) == {Hop(L, L.head, k) : k \in 0..MaxNodes} \cap Pool

\* every successful result of add_song in state M
AddResults(M) ==
  {r \in {manager_add_song(M, s.id, s.title, s.artist, likes, plays, addr) :
            s \in Catalog, likes \in Likes, plays \in Plays,
            addr \in MallocChoices(M.queue)} : r.ret /\ ~r.crash}

\* every result of undo in state M
UndoResults(M) ==
  {manager_undo(M, o.addr, o.k, o.dfree) : o \in UndoChoices(M)}

\* C1 (I1, P1): the playback queue is empty or a well-formed ring: every
\* entry e has e.next.prev = e and e.prev.next = e, and following next from
\* head exactly size times returns to head.
C1_RingWellFormed ==
  LET L == mgr.queue
  IN \/ L.size = 0 /\ L.head = NULL
     \/ /\ L.size > 0
        /\ L.head \in L.live
        /\ \A e \in Entries(L) :
              /\ e \in L.live
              /\ L.mem[e].next \in Pool /\ L.mem[e].prev \in Pool
              /\ L.mem[L.mem[e].next].prev = e
              /\ L.mem[L.mem[e].prev].next = e
        /\ Hop(L, L.head, L.size) = L.head

\* C2 (I2): current is null iff size = 0; when size > 0 current is an entry
\* reachable from head by next; current_song() is -1 exactly when the queue
\* is empty.
C2_CurrentIsEntry ==
  LET L == mgr.queue
  IN /\ (L.current = NULL) <=> (L.size = 0)
     /\ L.size > 0 => L.current \in Entries(L) \cap L.live
     /\ (manager_get_current_song(mgr) = -1) <=> (L.size = 0)

\* C3: after a successful add_song, undo() followed by redo() restores
\* queue_snapshot and queue_size to their values right after the add.
C3_UndoRedoRestoresAdd ==
  \A a \in AddResults(mgr) : \A u \in UndoResults(a.M) :
    (u.ret /\ ~u.crash) =>
       LET r == manager_redo(u.M)
       IN /\ View(r.M).snapshot = View(a.M).snapshot
          /\ View(r.M).size = View(a.M).size

\* C4 (P2): a successful add_song immediately followed by undo() restores
\* queue_size, current_song and queue_snapshot to their values before the
\* add, also when the queue already holds an entry with the same song id.
C4_AddUndoRestores ==
  \A a \in AddResults(mgr) : \A u \in UndoResults(a.M) :
    (u.ret /\ ~u.crash) => View(u.M) = View(mgr)

\* C5: after every undo() that returns true, the Operation that was on top
\* of the undo stack is on top of the redo stack.
C5_UndoneOpOnRedoTop ==
  \A u \in UndoResults(mgr) :
    (u.ret /\ ~u.crash) =>
       /\ ~stack_is_empty(u.M.redo_stack)
       /\ stack_peek(u.M.redo_stack) = stack_peek(mgr.undo_stack)

\* C6: every undo() that returns true shrinks the undo stack by exactly the
\* undone entry and leaves the entries below it unchanged.
C6_UndoPopsExactlyOne ==
  \A u \in UndoResults(mgr) :
    (u.ret /\ ~u.crash) =>
       /\ u.M.undo_stack.size = mgr.undo_stack.size - 1
       /\ u.M.undo_stack.top = Tail(mgr.undo_stack.top)

\* every call of a mutator that records its edit, in state M
RecordingCalls(M) ==
  {manager_add_song(M, s.id, s.title, s.artist, likes, plays, addr) :
      s \in Catalog, likes \in Likes, plays \in Plays,
      addr \in MallocChoices(M.queue)}
  \cup {manager_remove_song(M, id, f.k, f.dfree) :
          id \in SongIds, f \in FreeChoices(M)}
  \cup {manager_skip_next(M), manager_skip_prev(M)}
  \cup {manager_move_up(M, id) : id \in SongIds}
  \cup {manager_move_down(M, id) : id \in SongIds}
  \cup {manager_update_priority(M, id, likes, plays) :
          id \in SongIds, likes \in Likes, plays \in Plays}

\* C7 (I6): every add_song, remove_song, skip_next, skip_prev, move_up,
\* move_down or update_priority call that returns true grows the undo stack
\* by exactly one entry and leaves the redo stack empty.
C7_RecordedOnce ==
  \A r \in RecordingCalls(mgr) :
    (r.ret /\ ~r.crash) =>
       /\ r.M.undo_stack.size = mgr.undo_stack.size + 1
       /\ Len(r.M.undo_stack.top) = Len(mgr.undo_stack.top) + 1
       /\ stack_is_empty(r.M.redo_stack)
       /\ r.M.redo_stack.size = 0

\* C7 witness: a skip was recorded after an undo had filled the redo stack
\* (four successful calls, two records left, a SKIP on top, redo empty)
C7_Witness ==
  /\ ncalls = 4
  /\ mgr.undo_stack.size = 2
  /\ stack_peek(mgr.undo_stack).type = "OP_SKIP"
  /\ stack_is_empty(mgr.redo_stack)

\* C8 (I6): the accessors (current_song, queue_size, queue_snapshot,
\* get_recommendations, search_songs, search_artists) and rotate_queue leave
\* the undo stack and the redo stack unchanged.
C8_StacksUntouched ==
  [][(CurrentSong \/ QueueSize \/ QueueSnapshot \/ GetRecommendations
       \/ SearchSongs \/ SearchArtists \/ RotateQueue)
     => /\ mgr'.undo_stack = mgr.undo_stack
        /\ mgr'.redo_stack = mgr.redo_stack]_vars

\* C8 witness: songs 1 and 2 were added in that order and the queue was
\* rotated (a third successful call that left no record)
C8_Witness ==
  /\ ncalls = 3
  /\ mgr.undo_stack.size = 2
  /\ \A i \in 1..2 : mgr.undo_stack.top[i].type = "OP_ADD"
  /\ stack_is_empty(mgr.redo_stack)
  /\ dll_display(mgr.queue) = <<2, 1>>
  /\ mgr.undo_stack.top[1].song_id = 2

\* every mutator call in state M, with its name and song id argument
MutatorCalls(M) ==
  {[op |-> "add_song", id |-> s.id,
    r |-> manager_add_song(M, s.id, s.title, s.artist, likes, plays, addr)] :
      s \in Catalog, likes \in Likes, plays \in Plays,
      addr \in MallocChoices(M.queue)}
  \cup {[op |-> "remove_song", id |-> id,
         r |-> manager_remove_song(M, id, f.k, f.dfree)] :
          id \in SongIds, f \in FreeChoices(M)}
  \cup {[op |-> "skip", id |-> 0, r |-> manager_skip_next(M)],
        [op |-> "skip", id |-> 0, r |-> manager_skip_prev(M)],
        [op |-> "redo", id |-> 0, r |-> manager_redo(M)]}
  \cup {[op |-> "move", id |-> id, r |-> manager_move_up(M, id)] :
          id \in SongIds}
  \cup {[op |-> "move", id |-> id, r |-> manager_move_down(M, id)] :
          id \in SongIds}
  \cup {[op |-> "rotate_queue", id |-> 0, r |-> manager_rotate_queue(M, fwd)] :
          fwd \in BOOLEAN}
  \cup {[op |-> "update_priority", id |-> id,
         r |-> manager_update_priority(M, id, likes, plays)] :
          id \in SongIds, likes \in Likes, plays \in Plays}
  \cup {[op |-> "undo", id |-> 0, r |-> manager_undo(M, o.addr, o.k, o.dfree)] :
          o \in UndoChoices(M)}

\* song id is not in the queue: the snapshot can be taken and lacks it
NotInQueue(M, id) ==
  /\ dll_display(M.queue) # <<CRASH>>
  /\ \A i \in 1..Len(dll_display(M.queue)) : dll_display(M.queue)[i] # id

\* the cases in which C9 says a mutator must return false
MustFail(M, c) ==
  \/ c.op \in {"remove_song", "move"} /\ NotInQueue(M, c.id)
  \/ c.op = "move" /\ M.queue.size < 2
  \/ c.op = "skip" /\ M.queue.size = 0
  \/ c.op = "undo" /\ stack_is_empty(M.undo_stack)
  \/ c.op = "redo" /\ stack_is_empty(M.redo_stack)

\* C9: a mutator that returns false changes nothing; remove_song, move_up
\* and move_down for a song id not in the queue, move_up/move_down on a
\* queue of size < 2, skip_next/skip_prev on an empty queue, undo on an
\* empty undo stack and redo on an empty redo stack return false.
C9_FalseChangesNothing ==
  \A c \in MutatorCalls(mgr) :
    /\ (~c.r.ret /\ ~c.r.crash) => c.r.M = mgr
    /\ MustFail(mgr, c) => (~c.r.ret /\ ~c.r.crash)

\* C9 witness: a queue holding only song 1 with history on both stacks:
\* move_up(1) fails on size < 2, remove_song(2) fails on a missing id
C9_Witness ==
  /\ dll_display(mgr.queue) = <<1>>
  /\ ~stack_is_empty(mgr.undo_stack)
  /\ ~stack_is_empty(mgr.redo_stack)
  /\ ~manager_move_up(mgr, 1).ret
  /\ ~manager_remove_song(mgr, 2, KeepAll, FALSE).ret

\* C10: add_song for a song id that is not in the popularity heap, called
\* while the heap holds capacity entries, returns false and pushes no
\* Operation onto the undo stack.
C10_AddFailsOnFullHeap ==
  \A s \in Catalog, likes \in Likes, plays \in Plays,
     addr \in MallocChoices(mgr.queue) :
    (/\ find_song_index(mgr.recommendations, s.id) = -1
     /\ heap_get_size(mgr.recommendations) >= mgr.recommendations.capacity)
    => LET r == manager_add_song(mgr, s.id, s.title, s.artist, likes, plays,
                                 addr)
       IN ~r.ret /\ r.M.undo_stack = mgr.undo_stack

\* C11 as stated: update_priority for a song id with no matching entry
\* (neither in the playback queue nor in the popularity heap) returns false.
C11_UpdateFailsOnMissing ==
  \A id \in SongIds, likes \in Likes, plays \in Plays :
    (find_song_index(mgr.recommendations, id) = -1 /\ NotInQueue(mgr, id))
    => ~manager_update_priority(mgr, id, likes, plays).ret

\* C11: update_priority for a song id the popularity heap does not hold
\* inserts the entry (id, 2*likes + plays) and returns true while the heap
\* is below capacity; it returns false, changing nothing, exactly when the
\* heap is full.
C11_UpdateInsertsMissing ==
  \A id \in SongIds, likes \in Likes, plays \in Plays :
    find_song_index(mgr.recommendations, id) = -1 =>
      LET r == manager_update_priority(mgr, id, likes, plays)
          H == r.M.recommendations
      IN IF heap_get_size(mgr.recommendations) < mgr.recommendations.capacity
         THEN /\ r.ret /\ ~r.crash
              /\ heap_get_size(H) = heap_get_size(mgr.recommendations) + 1
              /\ find_song_index(H, id) # -1
              /\ H.nodes[find_song_index(H, id) + 1].priority
                    = likes * 2 + plays
         ELSE ~r.ret /\ ~r.crash /\ r.M = mgr

\* C11 witness: the only call so far was an update_priority for a song that
\* was never added; it succeeded and the heap holds the new entry
C11_Witness ==
  /\ ncalls = 1
  /\ mgr.queue.size = 0
  /\ stack_peek(mgr.undo_stack).type = "OP_UPDATE_PRIORITY"
  /\ heap_get_size(mgr.recommendations) = 1
  /\ mgr.recommendations.nodes[1].song_id = stack_peek(mgr.undo_stack).song_id

\* C12 (I3): the live heap satisfies the max-heap property: for every slot
\* i with 0 < i < size, nodes[(i-1)/2].priority >= nodes[i].priority.
C12_MaxHeapProperty ==
  LET ns == mgr.recommendations.nodes
  IN \A i \in 1..(Len(ns) - 1) :
       ns[((i - 1) \div 2) + 1].priority >= ns[i + 1].priority

\* C12 witness: the song inserted first was the root of a three-entry heap
\* and the fourth call lowered its priority; heapifyDown moved it below the
\* right child, the larger of the two
C12_Witness ==
  LET ns == mgr.recommendations.nodes
      ops == mgr.undo_stack.top
  IN /\ ncalls = 4
     /\ Len(ns) = 3
     /\ Len(ops) = 4
     /\ ops[1].type = "OP_UPDATE_PRIORITY"
     /\ ops[1].song_id = ns[3].song_id
     /\ ops[4].song_id = ns[3].song_id
     /\ ns[1].priority > ns[2].priority
     /\ ns[2].priority > ns[3].priority

\* C13 (I4): the live popularity heap never holds two entries with the same
\* song_id, however often a song is added to the queue or re-prioritised.
C13_HeapIdsDistinct ==
  LET ns == mgr.recommendations.nodes
  IN \A i, j \in 1..Len(ns) : ns[i].song_id = ns[j].song_id => i = j

\* C13 witness: song 1 is in the queue twice and its priority was then
\* updated; the heap holds it once, next to song 2
C13_Witness ==
  /\ ncalls = 4
  /\ dll_display(mgr.queue) = <<1, 1>>
  /\ stack_peek(mgr.undo_stack).type = "OP_UPDATE_PRIORITY"
  /\ stack_peek(mgr.undo_stack).song_id = 1
  /\ heap_get_size(mgr.recommendations) = 2
  /\ find_song_index(mgr.recommendations, 1) # -1

\* the priority the live heap of M holds for song id
LivePriority(M, id) ==
  M.recommendations.nodes[find_song_index(M.recommendations, id) + 1].priority

\* C14 (P5): get_recommendations(limit) returns min(limit, heap size) song
\* ids, each a different entry of the live heap, in non-increasing order of
\* their live priority.
C14_RecommendationsSorted ==
  \A limit \in HeapLimits :
    LET list == manager_get_recommendations(mgr, limit).list
    IN /\ Len(list) = Min({limit, heap_get_size(mgr.recommendations)})
       /\ \A i \in 1..Len(list) :
             find_song_index(mgr.recommendations, list[i]) # -1
       /\ \A i, j \in 1..Len(list) : list[i] = list[j] => i = j
       /\ \A i, j \in 1..Len(list) :
             i < j => LivePriority(mgr, list[i]) >= LivePriority(mgr, list[j])

\* C14 witness: three entries whose array order is not the priority order
\* (slot 1 below slot 2): limit 2 returns slots 0 and 2, limit 4 all three
C14_Witness ==
  LET ns == mgr.recommendations.nodes
  IN /\ Len(ns) = 3
     /\ ns[1].priority > ns[3].priority
     /\ ns[3].priority > ns[2].priority
     /\ manager_get_recommendations(mgr, 2).list
          = <<ns[1].song_id, ns[3].song_id>>
     /\ manager_get_recommendations(mgr, 4).list
          = <<ns[1].song_id, ns[3].song_id, ns[2].song_id>>

\* C15 (P6): get_recommendations leaves the live heap untouched: its size
\* and the (song_id, priority) contents of its array are the same after the
\* call as before, for every limit.
C15_LiveHeapUntouched ==
  [][HeapGetRecommendations =>
       /\ heap_get_size(mgr'.recommendations)
            = heap_get_size(mgr.recommendations)
       /\ mgr'.recommendations.nodes = mgr.recommendations.nodes]_vars

\* C15 witness: a heap filled to its capacity of three, from which a call
\* with limit 3 extracts every entry of the copy
C15_Witness ==
  /\ mgr.recommendations.capacity = 3
  /\ heap_get_size(mgr.recommendations) = 3
  /\ Len(manager_get_recommendations(mgr, 3).list) = 3
  /\ manager_get_recommendations(mgr, 3).M.recommendations.nodes
       = mgr.recommendations.nodes

\* the elements of a returned id list
Ids(list) == {list[i] : i \in 1..Len(list)}

\* C16 (P4): after a successful add_song(id, title, artist, ...),
\* search_songs(p) includes id for every p whose folded form equals that of
\* title, and search_artists(p) includes id for every p whose folded form
\* equals that of artist.
C16_AddedSongIsFound ==
  \A s \in Library, plays \in Plays, addr \in MallocChoices(mgr.queue) :
    LET r == manager_add_song(mgr, s.id, s.title, s.artist, 0, plays, addr)
    IN (r.ret /\ ~r.crash) =>
         \A p \in Queries :
           /\ Fold(p) = Fold(s.title)
                => s.id \in Ids(manager_search_songs(r.M, p))
           /\ Fold(p) = Fold(s.artist)
                => s.id \in Ids(manager_search_artists(r.M, p))

\* C16 witness: song 2 ("s~Eo" by "aB") was added first and song 1 after it;
\* "SeO" finds song 2, and "ab" finds both artists' songs, newest first
C16_Witness ==
  /\ ncalls = 2
  /\ dll_display(mgr.queue) = <<2, 1>>
  /\ manager_search_songs(mgr, <<"S", "e", "O">>) = <<2>>
  /\ manager_search_artists(mgr, <<"a", "b">>) = <<1, 2>>

\* the title and artist under which the library lists song id
TitleOf(id) == (CHOOSE s \in Library : s.id = id).title
ArtistOf(id) == (CHOOSE s \in Library : s.id = id).artist

\* C17: search_songs(prefix) returns only ids whose inserted title folds to
\* exactly the folded prefix: songs with a longer folded title do not
\* appear, a prefix without a path in the trie yields the empty list, and
\* an add_song changes the result of exactly the queries that fold to its
\* title, by putting its id in front.
C17_TerminalListOnly ==
  /\ \A q \in Queries :
        /\ \A id \in Ids(manager_search_songs(mgr, q)) :
              Fold(TitleOf(id)) = Fold(q)
        /\ Fold(q) \notin DOMAIN mgr.song_trie
              => manager_search_songs(mgr, q) = <<>>
  /\ \A s \in Library, plays \in Plays, addr \in MallocChoices(mgr.queue) :
        LET r == manager_add_song(mgr, s.id, s.title, s.artist, 0, plays, addr)
        IN (r.ret /\ ~r.crash) =>
             \A q \in Queries :
               manager_search_songs(r.M, q)
                 = IF Fold(q) = Fold(s.title)
                   THEN <<s.id>> \o manager_search_songs(mgr, q)
                   ELSE manager_search_songs(mgr, q)

\* C17 witness: songs 1 ("Se"), 2 (folds to "seo") and 7 (folds to
\* "seorita") are in the trie: "se" lists song 1 only, "s" and "seor" end on
\* nodes where no title ended, "sex" and "x" have no path
C17_Witness ==
  /\ ncalls = 3
  /\ Ids(dll_display(mgr.queue)) = {1, 2, 7}
  /\ manager_search_songs(mgr, <<"s", "e">>) = <<1>>
  /\ manager_search_songs(mgr, <<"s">>) = <<>>
  /\ manager_search_songs(mgr, <<"s", "e", "o", "r">>) = <<>>
  /\ <<"s", "e", "o", "r">> \in DOMAIN mgr.song_trie
  /\ manager_search_songs(mgr, <<"s", "e", "x">>) = <<>>
  /\ manager_search_songs(mgr, <<"x">>) = <<>>

\* the title and artist of song 7 in the library
Senorita == TitleOf(7)
Shawn == ArtistOf(7)

\* C18 as stated: after add_song(7, "Se<n-tilde>orita", ...), whose title
\* folds to "seorita", search_songs("se") does not include 7 and
\* search_songs("seo") includes 7.
C18_SeoFindsSenorita ==
  \A plays \in Plays, addr \in MallocChoices(mgr.queue) :
    LET r == manager_add_song(mgr, 7, Senorita, Shawn, 0, plays, addr)
    IN (r.ret /\ ~r.crash) =>
         /\ 7 \notin Ids(manager_search_songs(r.M, <<"s", "e">>))
         /\ 7 \in Ids(manager_search_songs(r.M, <<"s", "e", "o">>))

\* C18: after add_song(7, title, ...) with a title that folds to
\* "seorita", neither search_songs("se") nor search_songs("seo") includes
\* 7; the queries that fold to "seorita" itself (the title, "seorita",
\* "SEORITA") include it.
C18_OnlySeoritaFindsSenorita ==
  /\ Fold(Senorita) = <<"s", "e", "o", "r", "i", "t", "a">>
  /\ \A plays \in Plays, addr \in MallocChoices(mgr.queue) :
        LET r == manager_add_song(mgr, 7, Senorita, Shawn, 0, plays, addr)
        IN (r.ret /\ ~r.crash) =>
             /\ 7 \notin Ids(manager_search_songs(r.M, <<"s", "e">>))
             /\ 7 \notin Ids(manager_search_songs(r.M, <<"s", "e", "o">>))
             /\ \A q \in {Senorita, <<"s", "e", "o", "r", "i", "t", "a">>,
                           <<"S", "E", "O", "R", "I", "T", "A">>} :
                   7 \in Ids(manager_search_songs(r.M, q))

\* C18 witness: song 7 was added after song 2, whose title folds to "seo":
\* "seo" lists song 2 alone, the title of song 7 lists song 7
C18_Witness ==
  /\ ncalls = 2
  /\ dll_display(mgr.queue) = <<2, 7>>
  /\ manager_search_songs(mgr, <<"s", "e", "o">>) = <<2>>
  /\ manager_search_songs(mgr, <<"s", "e">>) = <<>>
  /\ manager_search_songs(mgr, Senorita) = <<7>>

\* every successful add_song call in state M, with the added song id
AddCalls(M) ==
  {c \in {[id |-> s.id,
           r |-> manager_add_song(M, s.id, s.title, s.artist, likes, plays,
                                  addr)] :
            s \in Catalog, likes \in Likes, plays \in Plays,
            addr \in MallocChoices(M.queue)} : c.r.ret /\ ~c.r.crash}

\* C19: add_song appends.  On an empty queue the new entry becomes head,
\* tail and current (current_song() = id, queue_size() = 1); on a non-empty
\* queue queue_size grows by one, the new id is the last element of
\* queue_snapshot, and the earlier elements and current are unchanged.
C19_AddAppends ==
  \A c \in AddCalls(mgr) :
    LET L == mgr.queue
        A == c.r.M.queue
    IN IF dll_get_size(L) = 0
       THEN /\ A.head = A.tail /\ A.head = A.current /\ A.head \in Pool
            /\ View(c.r.M) = [snapshot |-> <<c.id>>, size |-> 1,
                               current |-> c.id]
       ELSE /\ dll_get_size(A) = dll_get_size(L) + 1
            /\ dll_display(A) = dll_display(L) \o <<c.id>>
            /\ A.current = L.current
            /\ manager_get_current_song(c.r.M) = manager_get_current_song(mgr)

\* n consecutive skip_next calls from M: the manager they end in, and
\* whether every one of them returned true
RECURSIVE SkipNextTimes(_, _)
SkipNextTimes(M, n) ==
  IF n = 0 THEN [M |-> M, ok |-> TRUE]
  ELSE LET r == manager_skip_next(M)
       IN IF r.crash \/ ~r.ret THEN [M |-> M, ok |-> FALSE]
          ELSE SkipNextTimes(r.M, n - 1)

\* C20: with a non-empty queue skip_next returns true, and queue_size()
\* consecutive skip_next calls bring current back to the entry it started
\* from.
C20_SkipNextCycles ==
  mgr.queue.size > 0 =>
    LET r == SkipNextTimes(mgr, mgr.queue.size)
    IN /\ r.ok
       /\ r.M.queue.current = mgr.queue.current

\* the snapshot index (from 1) of the first occurrence of id, 0 if none
FirstIndex(snapshot, id) ==
  IF \E i \in 1..Len(snapshot) : snapshot[i] = id
  THEN Min({i \in 1..Len(snapshot) : snapshot[i] = id})
  ELSE 0

\* snapshot with the elements at indices i and j exchanged
Exchanged(snapshot, i, j) ==
  [snapshot EXCEPT ![i] = snapshot[j], ![j] = snapshot[i]]

\* C21: move_up(id) on a queue of size >= 2, where the first occurrence of
\* id is at snapshot index i > 0, exchanges the elements at snapshot indices
\* i-1 and i and leaves every other position, queue_size and current
\* unchanged.
C21_MoveUpExchanges ==
  \A s \in QueueSongs :
    LET before == dll_display(mgr.queue)
        i == FirstIndex(before, s.id)
        r == manager_move_up(mgr, s.id)
    IN (mgr.queue.size >= 2 /\ i > 1) =>
         /\ r.ret /\ ~r.crash
         /\ dll_display(r.M.queue) = Exchanged(before, i - 1, i)
         /\ dll_get_size(r.M.queue) = dll_get_size(mgr.queue)
         /\ r.M.queue.current = mgr.queue.current
         /\ manager_get_current_song(r.M) = manager_get_current_song(mgr)

\* C22 (P3): on a queue of size >= 2, for a song x whose first occurrence
\* is not the head, move_up(x) followed by move_down(x) returns
\* queue_snapshot to its original ordering.
C22_MoveUpDownRestores ==
  \A s \in QueueSongs :
    LET before == dll_display(mgr.queue)
        up == manager_move_up(mgr, s.id)
        down == manager_move_down(up.M, s.id)
    IN (mgr.queue.size >= 2 /\ FirstIndex(before, s.id) > 1) =>
         /\ up.ret /\ ~up.crash
         /\ down.ret /\ ~down.crash
         /\ dll_display(down.M.queue) = before

\* C23: move_down(x) has exactly the effect of move_up on x's successor, and
\* when x is the tail of a queue of size >= 3, move_down(x) makes x the first
\* element of queue_snapshot while all other entries keep their relative
\* order.
C23_MoveDownOfTailRelocates ==
  \A s \in QueueSongs :
    LET before == dll_display(mgr.queue)
        n == Len(before)
        node == dll_find_by_id(mgr.queue, s.id)
        r == manager_move_down(mgr, s.id)
    IN /\ node \in Pool =>
            dll_move_down(mgr.queue, node)
              = dll_move_up(mgr.queue, mgr.queue.mem[node].next)
       /\ (mgr.queue.size >= 3 /\ n >= 3 /\ FirstIndex(before, s.id) = n) =>
            /\ r.ret /\ ~r.crash
            /\ dll_display(r.M.queue) = <<s.id>> \o SubSeq(before, 1, n - 1)

\* C24: after a successful move_up(id) or move_down(id), undo() returns
\* queue_snapshot to the ordering it had before the move, in every reachable
\* state (queues of size 2 and queues with duplicate song ids included).
C24_UndoRestoresMove ==
  \A s \in QueueSongs :
    \A r \in {manager_move_up(mgr, s.id), manager_move_down(mgr, s.id)} :
      (r.ret /\ ~r.crash) =>
        \A u \in UndoResults(r.M) :
          /\ u.ret /\ ~u.crash
          /\ dll_display(u.M.queue) = dll_display(mgr.queue)

\* snapshot without its element at index i
Without(snapshot, i) ==
  SubSeq(snapshot, 1, i - 1) \o SubSeq(snapshot, i + 1, Len(snapshot))

\* every result of remove_song(id) in state M
RemoveResults(M, id) ==
  {manager_remove_song(M, id, f.k, f.dfree) : f \in FreeChoices(M)}

\* C25: remove_song(id) on a queue containing id removes exactly the first
\* occurrence of id in snapshot order (the other entries, later duplicates
\* included, keep their order and queue_size drops by one) and changes
\* neither the heap nor either trie, so search and recommendations answer
\* as before and still return id.
C25_RemoveFirstOccurrenceOnly ==
  \A s \in QueueSongs :
    LET before == dll_display(mgr.queue)
        i == FirstIndex(before, s.id)
    IN i > 0 =>
         \A r \in RemoveResults(mgr, s.id) :
           /\ r.ret /\ ~r.crash
           /\ dll_display(r.M.queue) = Without(before, i)
           /\ dll_get_size(r.M.queue) = dll_get_size(mgr.queue) - 1
           /\ r.M.recommendations = mgr.recommendations
           /\ r.M.song_trie = mgr.song_trie
           /\ r.M.artist_trie = mgr.artist_trie
           /\ s.id \in Ids(manager_search_songs(r.M, s.title))
           /\ s.id \in Ids(manager_search_artists(r.M, s.artist))
           /\ s.id \in Ids(manager_get_recommendations(r.M, HeapCapacity).list)

\* C26: when remove_song removes the entry current points to, current moves
\* to that entry's successor (the head when the removed entry was the tail);
\* when the removed entry is the only one, head, tail and current become
\* null and queue_size is 0; removing any other entry leaves current
\* unchanged.
C26_RemoveMovesCurrent ==
  \A s \in QueueSongs :
    LET L == mgr.queue
        node == dll_find_by_id(L, s.id)
    IN node \in Pool =>
         \A r \in RemoveResults(mgr, s.id) :
           LET R == r.M.queue
           IN /\ r.ret /\ ~r.crash
              /\ L.size = 1 =>
                   /\ R.head = NULL /\ R.tail = NULL /\ R.current = NULL
                   /\ R.size = 0
              /\ (L.size > 1 /\ L.current = node) =>
                   /\ R.current = L.mem[node].next
                   /\ R.current \in Entries(R)
                   /\ node = L.tail => R.current = L.head /\ R.head = L.head
              /\ (L.size > 1 /\ L.current # node) => R.current = L.current

\* C27: rotate_queue(forward) on a queue of size >= 2 turns the snapshot
\* [a0, a1, ..., an-1] into [a1, ..., an-1, a0], rotate_queue(backward) into
\* [an-1, a0, ..., an-2]; the ring links, queue_size and current are
\* unchanged; on a queue of size < 2 it changes nothing.
C27_RotateShiftsWindow ==
  \A forward \in BOOLEAN :
    LET L == mgr.queue
        before == dll_display(L)
        n == Len(before)
        r == manager_rotate_queue(mgr, forward)
        R == r.M.queue
    IN /\ r.ret /\ ~r.crash
       /\ R.mem = L.mem /\ R.size = L.size /\ R.current = L.current
       /\ L.size < 2 => R = L
       /\ L.size >= 2 =>
            dll_display(R) = IF forward
                             THEN Tail(before) \o <<Head(before)>>
                             ELSE <<before[n]>> \o SubSeq(before, 1, n - 1)

\* C28: after a successful remove_song(id), undo() restores queue_size and
\* re-appends id at the tail: id is the last element of queue_snapshot and
\* the other entries keep their order.
C28_UndoRemoveAppends ==
  \A s \in QueueSongs :
    \A r \in RemoveResults(mgr, s.id) :
      (r.ret /\ ~r.crash) =>
        \A u \in UndoResults(r.M) :
          /\ u.ret /\ ~u.crash
          /\ dll_get_size(u.M.queue) = dll_get_size(mgr.queue)
          /\ dll_display(u.M.queue) = Append(dll_display(r.M.queue), s.id)

\* C29: undo() of a SKIP or UPDATE_PRIORITY record returns true and leaves
\* the queue (snapshot and current), the heap and the tries unchanged; only
\* the record moves from the undo stack to the redo stack.
C29_UndoOfSkipOrUpdateIsNoOp ==
  (/\ ~stack_is_empty(mgr.undo_stack)
   /\ stack_peek(mgr.undo_stack).type \in {"OP_SKIP", "OP_UPDATE_PRIORITY"}) =>
    \A u \in UndoResults(mgr) :
      /\ u.ret /\ ~u.crash
      /\ u.M.queue = mgr.queue
      /\ dll_display(u.M.queue) = dll_display(mgr.queue)
      /\ manager_get_current_song(u.M) = manager_get_current_song(mgr)
      /\ u.M.recommendations = mgr.recommendations
      /\ u.M.song_trie = mgr.song_trie
      /\ u.M.artist_trie = mgr.artist_trie
      /\ u.M.upcoming = mgr.upcoming
      /\ u.M.undo_stack = stack_pop(mgr.undo_stack).S
      /\ u.M.redo_stack
           = stack_push(mgr.redo_stack, stack_peek(mgr.undo_stack))

\* an UPDATE_PRIORITY record has been undone (it is on the redo stack) and
\* the next record to undo is a SKIP, with an ADD record beneath it
C29_Witness ==
  /\ ~crashed
  /\ stack_get_size(mgr.redo_stack) = 1
  /\ stack_peek(mgr.redo_stack).type = "OP_UPDATE_PRIORITY"
  /\ stack_get_size(mgr.undo_stack) = 2
  /\ stack_peek(mgr.undo_stack).type = "OP_SKIP"
  /\ mgr.undo_stack.top[2].type = "OP_ADD"
  /\ mgr.queue.size = 1

\* the song ids successive queue_dequeue calls return while the chain from
\* front stays in the buffer's own nodes; WILD marks a link that leaves them
RECURSIVE buffer_walk(_, _, _)
buffer_walk(M, a, n) ==
  IF a = NULL \/ n = 0 THEN <<>>
  ELSE IF a \notin M.upcoming.own THEN <<WILD>>
  ELSE <<M.upcoming.mem[a].song_id>>
         \o buffer_walk(M, M.upcoming.mem[a].next, n - 1)

Upcoming(M) == buffer_walk(M, M.upcoming.front, MaxNodes + MaxUpcoming + 1)

\* every result of a call on the playback queue in state M
PlaybackResults(M) ==
  {Disturbed(M, r) : r \in
     AddResults(M) \cup UndoResults(M)
     \cup UNION {RemoveResults(M, id) : id \in SongIds}
     \cup {manager_move_up(M, id) : id \in SongIds}
     \cup {manager_move_down(M, id) : id \in SongIds}
     \cup {manager_rotate_queue(M, forward) : forward \in BOOLEAN}
     \cup {manager_skip_next(M), manager_skip_prev(M)}}

\* C30 (I7): the upcoming buffer is a FIFO independent of the playback
\* queue: enqueue appends, dequeue returns and removes the oldest id (-1 on
\* an empty buffer, which it leaves unchanged), and no call on the playback
\* queue changes the buffer.
C30_UpcomingIsIndependentFifo ==
  /\ \A id \in BufferIds, addr \in QMallocChoices(mgr) :
       LET r == queue_enqueue(mgr, id, addr)
       IN /\ r.ret /\ ~r.crash
          /\ Upcoming(r.M) = Append(Upcoming(mgr), id)
  /\ \A f \in QFreeChoices(mgr) :
       LET d == queue_dequeue(mgr, f.k, f.dfree)
       IN /\ ~d.crash
          /\ IF mgr.upcoming.front = NULL
             THEN d.ret = -1 /\ d.M = mgr
             ELSE /\ Upcoming(mgr) # <<>>
                  /\ d.ret = Head(Upcoming(mgr))
                  /\ Upcoming(d.M) = Tail(Upcoming(mgr))
  /\ \A r \in PlaybackResults(mgr) :
       ~r.crash => r.M.upcoming = mgr.upcoming

\* C31: in every reachable state with a non-empty queue, tail == head.prev
\* and head == tail.next, whichever of insert_end, remove, move_up,
\* move_down and rotate led there.
C31_TailIsHeadPrev ==
  LET L == mgr.queue
  IN L.head # NULL =>
       /\ L.head \in Pool /\ L.tail \in Pool
       /\ L.mem[L.head].prev = L.tail
       /\ L.mem[L.tail].next = L.head

\* the priorities a caller's likes and play counts produce
HeapPriorities == {likes * 2 + plays : likes \in HeapLikes, plays \in Plays}

\* the nodes form a max-heap
IsMaxHeap(ns) ==
  \A i \in 1..(Len(ns) - 1) :
    ns[((i - 1) \div 2) + 1].priority >= ns[i + 1].priority

\* the entries held, as a bag
NodeBag(ns) == [n \in {ns[i] : i \in 1..Len(ns)} |->
                  Cardinality({i \in 1..Len(ns) : ns[i] = n})]

\* C32: heap_update_priority(id, p) on a heap without id behaves as insert
\* (size grows by one when size < capacity); on a heap with id it sets that
\* entry's priority to p, keeps the size, the ids and the other entries, and
\* restores the max-heap property: the entry moves towards the root only if
\* p increased, towards the leaves only if it decreased, not at all if equal.
C32_UpdatePriorityInPlace ==
  \A s \in HeapSongs, p \in HeapPriorities :
    LET H == mgr.recommendations
        index == find_song_index(H, s.id)
        r == heap_update_priority(H, s.id, p)
        after == find_song_index(r.H, s.id)
    IN IF index = -1
       THEN /\ r = insertHeap(H, s.id, p)
            /\ heap_get_size(H) < H.capacity =>
                 /\ r.ret
                 /\ heap_get_size(r.H) = heap_get_size(H) + 1
                 /\ IsMaxHeap(r.H.nodes)
       ELSE LET old == H.nodes[index + 1].priority
            IN /\ r.ret
               /\ heap_get_size(r.H) = heap_get_size(H)
               /\ NodeBag(r.H.nodes)
                    = NodeBag([H.nodes EXCEPT ![index + 1].priority = p])
               /\ r.H.nodes[after + 1].priority = p
               /\ IsMaxHeap(r.H.nodes)
               /\ p > old => after <= index
               /\ p < old => after >= index
               /\ p = old => r.H = H

\* an update raised the priority of the entry inserted last into a heap of
\* three, and the entry has moved from the last slot to the root
C32_Witness ==
  LET ns == mgr.recommendations.nodes
      ops == mgr.undo_stack.top
  IN /\ ncalls = 4
     /\ Len(ns) = 3
     /\ Len(ops) = 4
     /\ ops[1].type = "OP_UPDATE_PRIORITY"
     /\ ops[2].type = "OP_ADD"
     /\ ops[2].song_id = ops[1].song_id
     /\ ns[1].song_id = ops[1].song_id
     /\ ns[1].priority = ops[1].old_priority
     /\ ns[1].priority > ns[3].priority
     /\ ns[3].priority > ns[2].priority

\* C33: the heap never holds more than capacity entries: an insert, direct
\* or through update_priority of an unseen id, into a heap with
\* size == capacity returns false and leaves the heap unchanged.
C33_HeapBoundedByCapacity ==
  LET H == mgr.recommendations
  IN /\ heap_get_size(H) <= H.capacity
     /\ heap_get_size(H) = H.capacity =>
          \A id \in SongIds, likes \in Likes, plays \in Plays :
            LET p == likes * 2 + plays
                ins == insertHeap(H, id, p)
                upd == heap_update_priority(H, id, p)
            IN /\ ~ins.ret /\ ins.H = H
               /\ find_song_index(H, id) = -1 => ~upd.ret /\ upd.H = H

\* add_song of a second song met a full heap of capacity 1: the song is in
\* the queue and the heap still holds only the first
C33_Witness ==
  /\ ~crashed
  /\ mgr.recommendations.capacity = 1
  /\ heap_get_size(mgr.recommendations) = 1
  /\ dll_display(mgr.queue) = <<1, 2>>
  /\ find_song_index(mgr.recommendations, 1) = 0
  /\ find_song_index(mgr.recommendations, 2) = -1

\* C34: extract_max on a non-empty heap returns an entry whose priority is
\* >= every priority in the heap, removes exactly that entry (size - 1, the
\* remaining entries are the old ones minus the returned one) and leaves a
\* valid max-heap; on an empty heap extract_max and peek return the sentinel
\* {-1, -1.0} and change nothing.
C34_ExtractMaxRemovesMaximum ==
  LET H == mgr.recommendations
      r == extractMax(H)
  IN IF heap_get_size(H) = 0
     THEN /\ r.max = InvalidHeapNode /\ r.H = H
          /\ heap_peek(H) = InvalidHeapNode
          /\ InvalidHeapNode = HeapNode(-1, -1)
     ELSE /\ \A i \in 1..Len(H.nodes) : r.max.priority >= H.nodes[i].priority
          /\ heap_peek(H) = r.max
          /\ heap_get_size(r.H) = heap_get_size(H) - 1
          /\ NodeBag(Append(r.H.nodes, r.max)) = NodeBag(H.nodes)
          /\ IsMaxHeap(r.H.nodes)

\* a heap of three whose left child outranks the right one: extracting the
\* root moves the last entry to the root and sifts it down below the left
\* child, as the first recommendation shows
C34_Witness ==
  LET ns == mgr.recommendations.nodes
  IN /\ Len(ns) = 3
     /\ ns[1].priority > ns[2].priority
     /\ ns[2].priority > ns[3].priority
     /\ extractMax(mgr.recommendations).max = ns[1]
     /\ extractMax(mgr.recommendations).H.nodes = <<ns[2], ns[3]>>
     /\ manager_get_recommendations(mgr, 1).list = <<ns[1].song_id>>

\* C35: entries inserted with equal priority are returned by successive
\* extract_max calls, and so by get_recommendations, in the order in which
\* they were inserted.  Checked for the ids that one call inserted and no
\* later call touched: the undo stack holds one record for each, newest
\* first.
C35_TiesAreFifo ==
  LET ops == mgr.undo_stack.top
      list == manager_get_recommendations(mgr, HeapCapacity).list
      Once(id) == Cardinality({i \in 1..Len(ops) : ops[i].song_id = id}) = 1
      At(id) == CHOOSE i \in 1..Len(ops) : ops[i].song_id = id
      Pos(id) == CHOOSE i \in 1..Len(list) : list[i] = id
  IN \A a, b \in Ids(list) :
       (/\ Once(a) /\ Once(b)
        /\ At(a) > At(b)
        /\ LivePriority(mgr, a) = LivePriority(mgr, b)) => Pos(a) < Pos(b)

\* the records the manager pushes for song id
Records(id) ==
  {Operation(t, id, -1, 0) : t \in {"OP_MOVE_UP", "OP_MOVE_DOWN", "OP_SKIP"}}
  \cup {Operation("OP_REMOVE", id, pos, 0) : pos \in 0..(MaxNodes - 1)}
  \cup {Operation("OP_ADD", id, pos, likes * 2 + plays) :
          pos \in 0..(MaxNodes - 1), likes \in Likes, plays \in Plays}
  \cup {Operation("OP_UPDATE_PRIORITY", id, -1, likes * 2 + plays) :
          likes \in Likes, plays \in Plays}

C37_NoDanglingAndSizeExact ==
  LET L == mgr.queue
  IN /\ {L.head, L.tail, L.current} \cap Pool \subseteq L.live
     /\ L.size = Cardinality(Entries(L))

\* C38: in every reachable state with a non-empty queue, skip_next followed
\* by skip_prev, and skip_prev followed by skip_next, leaves current on the
\* same entry, and neither call changes queue_snapshot or queue_size.
C38_SkipNextPrevCancel ==
  mgr.queue.size > 0 =>
    \A forth \in BOOLEAN :
      LET a == IF forth THEN manager_skip_next(mgr) ELSE manager_skip_prev(mgr)
          b == IF forth THEN manager_skip_prev(a.M) ELSE manager_skip_next(a.M)
      IN /\ a.ret /\ ~a.crash
         /\ b.ret /\ ~b.crash
         /\ b.M.queue.current = mgr.queue.current
         /\ dll_display(a.M.queue) = dll_display(mgr.queue)
         /\ dll_display(b.M.queue) = dll_display(mgr.queue)
         /\ dll_get_size(a.M.queue) = dll_get_size(mgr.queue)
         /\ dll_get_size(b.M.queue) = dll_get_size(mgr.queue)

\* heap and tries of M2 are those of M1
SameIndexes(M1, M2) ==
  /\ M2.recommendations = M1.recommendations
  /\ M2.song_trie = M1.song_trie
  /\ M2.artist_trie = M1.artist_trie

\* after the undo of a call that set song s to priority p, the heap holds s
\* with priority p and search returns s
StillIndexed(M, s, p) ==
  /\ find_song_index(M.recommendations, s.id) # -1
  /\ LivePriority(M, s.id) = p
  /\ s.id \in Ids(manager_search_songs(M, s.title))
  /\ s.id \in Ids(manager_search_artists(M, s.artist))

\* every result of a manager call in state M that returned
ManagerResults(M) ==
  {r \in AddResults(M) \cup UndoResults(M)
         \cup UNION {RemoveResults(M, id) : id \in SongIds}
         \cup {manager_move_up(M, id) : id \in SongIds}
         \cup {manager_move_down(M, id) : id \in SongIds}
         \cup {manager_rotate_queue(M, forward) : forward \in BOOLEAN}
         \cup {manager_update_priority(M, id, likes, plays) :
                 id \in SongIds, likes \in Likes, plays \in Plays}
         \cup {manager_skip_next(M), manager_skip_prev(M), manager_redo(M)} :
     ~r.crash}

\* C39: undo() and redo() never change the popularity heap or the tries:
\* after add_song(x, ...) or update_priority(x, ...) followed by undo(), the
\* heap still holds x with the priority the undone call set and search
\* still returns x; and no manager operation decreases the heap's size.
C39_UndoKeepsHeapAndTries ==
  /\ \A u \in UndoResults(mgr) : ~u.crash => SameIndexes(mgr, u.M)
  /\ SameIndexes(mgr, manager_redo(mgr).M)
  /\ \A s \in Catalog, likes \in Likes, plays \in Plays :
       /\ \A addr \in MallocChoices(mgr.queue) :
            LET a == manager_add_song(mgr, s.id, s.title, s.artist, likes,
                                      plays, addr)
            IN (a.ret /\ ~a.crash) =>
                 \A u \in UndoResults(a.M) :
                   ~u.crash => /\ SameIndexes(a.M, u.M)
                               /\ StillIndexed(u.M, s, likes * 2 + plays)
       /\ LET a == manager_update_priority(mgr, s.id, likes, plays)
          IN a.ret =>
               \A u \in UndoResults(a.M) :
                 ~u.crash =>
                   /\ SameIndexes(a.M, u.M)
                   /\ find_song_index(u.M.recommendations, s.id) # -1
                   /\ LivePriority(u.M, s.id) = likes * 2 + plays
  /\ \A r \in ManagerResults(mgr) :
       heap_get_size(r.M.recommendations) >= heap_get_size(mgr.recommendations)
  /\ LET g == manager_get_recommendations(mgr, mgr.recommendations.capacity)
     IN heap_get_size(g.M.recommendations)
          = heap_get_size(mgr.recommendations)

\* C40: every queue traversal terminates in every reachable state:
\* dll_find_by_id and dll_display visit exactly size entries, and the
\* do-while traversal of dll_print, which stops only when it is back at
\* head, terminates for every reachable non-empty queue.
C40_TraversalsTerminate ==
  mgr.queue.size > 0 =>
    /\ dll_display(mgr.queue) # <<CRASH>>
    /\ Len(dll_display(mgr.queue)) = mgr.queue.size
    /\ \A s \in QueueSongs : dll_find_by_id(mgr.queue, s.id) # CRASH
    /\ manager_print_cdll(mgr) = "returns"
====
